---- MODULE Spec2Model ----
(***************************************************************************)
(* Model of shopify/collection.py (PaginatedCollection, PaginatedIterator) *)
(* and shopify/api_access.py (ApiAccess).                                  *)
(*                                                                         *)
(* Strings are sequences of tokens (each token a TLA+ string); a regular   *)
(* expression anchored at \A is a match on the leading tokens.  Page       *)
(* objects live in a heap (a sequence of records); an object reference is  *)
(* its index in the heap and None is 0.                                    *)
(***************************************************************************)
EXTENDS Integers, Sequences, FiniteSets, TLC

\* ------------------------------------------------------------------ bounds
MaxPages == 3
MaxItems == 2
MaxObjs == 3
MaxScopes == 2

ItemCounts == {0, MaxItems}

\* ------------------------------------------------------------- primitives
None == 0
NoUrl == <<>>

UrlTok == <<"u1", "u2", "u3", "u4", "u5", "u6">>

Url(k) == <<UrlTok[k]>>

PageOfUrl(url) == CHOOSE k \in 1..Len(UrlTok) : Url(k) = url

IndexOf(s, tok) == CHOOSE i \in 1..Len(s) : s[i] = tok /\ \A j \in 1..(i - 1) : s[j] # tok

RECURSIVE Split(_, _)
Split(s, sep) ==
    IF \A i \in 1..Len(s) : s[i] # sep
    THEN <<s>>
    ELSE LET i == IndexOf(s, sep)
         IN  <<SubSeq(s, 1, i - 1)>> \o Split(SubSeq(s, i + 1, Len(s)), sep)

DictGet(d, key) == IF key \in DOMAIN d THEN d[key] ELSE <<>>

DictPut(d, key, val) == [x \in (DOMAIN d) \cup {key} |-> IF x = key THEN val ELSE d[x]]

EmptyDict == [x \in {} |-> <<>>]

\* ------------------------------------------------- the fetch collaborator
VARIABLES chain, ctorOpt, heap, ret, it, pit, sets, last

pageVars == <<chain, ctorOpt, heap, ret, it, pit>>

scopeVars == <<sets, last>>

vars == <<chain, ctorOpt, heap, ret, it, pit, sets, last>>

ServerItems(ch, k) == [j \in 1..ch[k] |-> 10 * k + j]

LinkValue(url, rel) == <<"<">> \o url \o <<">", "; ", "rel=", "\"", rel, "\"">>

ServerLink(ch, k) ==
    LET prev == IF k > 1 THEN <<LinkValue(Url(k - 1), "previous")>> ELSE <<>>
        next == IF k < Len(ch) THEN <<LinkValue(Url(k + 1), "next")>> ELSE <<>>
        both == prev \o next
    IN  IF Len(both) = 2 THEN both[1] \o <<", ">> \o both[2]
        ELSE IF Len(both) = 1 THEN both[1] ELSE <<>>

ServerHeaders(ch, k) ==
    IF ServerLink(ch, k) = <<>> THEN EmptyDict
    ELSE IF k % 2 = 1 THEN DictPut(EmptyDict, "Link", ServerLink(ch, k))
    ELSE DictPut(EmptyDict, "link", ServerLink(ch, k))

\* ---------------------------------------------------- PaginatedCollection
RECURSIVE ParseLinks(_, _)
ParseLinks(values, result) ==
    IF values = <<>> THEN result
    ELSE LET parts == Split(Head(values), "; ")
             link == parts[1]
             rel == parts[2]
         IN  ParseLinks(Tail(values),
                        DictPut(result, Split(rel, "\"")[2], SubSeq(link, 2, Len(link) - 1)))

ParsePagination_LinkOnly(headers) ==
    LET link_header == DictGet(headers, "Link")
    IN  IF link_header = <<>> THEN EmptyDict
        ELSE ParseLinks(Split(link_header, ", "), EmptyDict)

ParsePagination(headers) ==
    LET link_header == IF DictGet(headers, "Link") # <<>>
                       THEN DictGet(headers, "Link")
                       ELSE DictGet(headers, "link")
    IN  IF link_header = <<>> THEN EmptyDict
        ELSE ParseLinks(Split(link_header, ", "), EmptyDict)

PaginationUrl(headers, rel) == DictGet(ParsePagination(headers), rel)

MakePage(k, items, headers, no_iter_next) ==
    [page |-> k,
     items |-> items,
     headers |-> headers,
     next_page_url |-> PaginationUrl(headers, <<"next">>),
     previous_page_url |-> PaginationUrl(headers, <<"previous">>),
     _next |-> None,
     _previous |-> None,
     _no_iter_next |-> no_iter_next]

NewPage_autodefault(ch, k, opt) ==
    MakePage(k, ServerItems(ch, k), ServerHeaders(ch, k),
             IF opt = "absent" THEN FALSE ELSE (opt = "true"))

NewPage(ch, k, opt) ==
    MakePage(k, ServerItems(ch, k), ServerHeaders(ch, k),
             IF opt = "absent" THEN TRUE ELSE (opt = "true"))

\* The fetch collaborator: the chain of pages it serves, and the find call it
\* answers with a transport error (the one that would create the page object
\* numbered fails_on; None when it answers every call).
Serving(ch) == [pages |-> ch, fails_on |-> None]

Failing(ch, n) == [pages |-> ch, fails_on |-> n]

Find(srv, url) == NewPage(srv.pages, PageOfUrl(url), "absent")

FindRaises(srv, h) == srv.fails_on = Len(h) + 1

HasPreviousPage(pg) == pg.previous_page_url # NoUrl

HasNextPage(pg) == pg.next_page_url # NoUrl

PyLen_own(h, p) == Len(h[p].items)

RECURSIVE PyLen(_, _)
Truthy(h, p) == p # None /\ PyLen(h, p) > 0

PyLen(h, p) ==
    LET count == IF Truthy(h, h[p]._next) THEN PyLen(h, h[p]._next) ELSE 0
    IN  count + Len(h[p].items)

\* Lines 101-103.
CacheLink(h1, self, id, no_cache) ==
    IF ~no_cache
    THEN [h1 EXCEPT ![self]._next = id, ![id]._previous = self]
    ELSE h1

\* Lines 104-105.
FetchResult(h, self, id, h2) ==
    [heap |-> [h2 EXCEPT ![id]._no_iter_next = h[self]._no_iter_next],
     result |-> id, raised |-> "none", fetches |-> 1, blocked |-> Len(h) >= MaxObjs]

FetchPage_noflag(ch, h, self, url, no_cache) ==
    [heap |-> CacheLink(Append(h, Find(ch, url)), self, Len(h) + 1, no_cache),
     result |-> Len(h) + 1, raised |-> "none", fetches |-> 1, blocked |-> Len(h) >= MaxObjs]

FetchPage_cache(ch, h, self, url, no_cache) ==
    FetchResult(h, self, Len(h) + 1,
                CacheLink(Append(h, Find(ch, url)), self, Len(h) + 1, FALSE))

FetchPage_backlink(ch, h, self, url, no_cache) ==
    FetchResult(h, self, Len(h) + 1,
                [CacheLink(Append(h, Find(ch, url)), self, Len(h) + 1, no_cache)
                    EXCEPT ![Len(h) + 1]._previous = self])

\* Line 100 raises: nothing after it runs.
Failed_retry(h) ==
    [heap |-> h, result |-> None, raised |-> "TransportError", fetches |-> 2,
     blocked |-> FALSE]

Failed(h) ==
    [heap |-> h, result |-> None, raised |-> "TransportError", fetches |-> 1,
     blocked |-> FALSE]

FetchPage(ch, h, self, url, no_cache) ==
    IF FindRaises(ch, h) THEN Failed(h)
    ELSE FetchResult(h, self, Len(h) + 1,
                     CacheLink(Append(h, Find(ch, url)), self, Len(h) + 1, no_cache))

Hit(h, p) == [heap |-> h, result |-> p, raised |-> "none", fetches |-> 0, blocked |-> FALSE]

Raise(h, exc) == [heap |-> h, result |-> None, raised |-> exc, fetches |-> 0, blocked |-> FALSE]

PreviousPageOp(ch, h, self, no_cache) ==
    IF Truthy(h, h[self]._previous) THEN Hit(h, h[self]._previous)
    ELSE IF ~HasPreviousPage(h[self]) THEN Raise(h, "IndexError")
    ELSE FetchPage(ch, h, self, h[self].previous_page_url, no_cache)

NextPageOp(ch, h, self, no_cache) ==
    IF Truthy(h, h[self]._next) THEN Hit(h, h[self]._next)
    ELSE IF ~HasNextPage(h[self]) THEN Raise(h, "IndexError")
    ELSE FetchPage(ch, h, self, h[self].next_page_url, no_cache)

\* One call of next() on the generator built by PaginatedCollection.__iter__:
\* the code runs from where it stopped up to the next yield or to its end.
\* The stack holds one frame per nested generator; a frame whose "delegating"
\* flag is set sits in the loop over self._current_iter.  The attribute
\* _current_iter itself is written by __iter__ and read only by the test
\* that precedes its own assignment (line 116), so no result depends on it:
\* the page being iterated is the frame pushed on the stack.
Top(st) == st[Len(st)]

Pop(st) == SubSeq(st, 1, Len(st) - 1)

Frame(self) == [self |-> self, idx |-> 0, delegating |-> FALSE]

\* The innermost generator returns: its frame is popped.
Returned(h, st, nf, vis) ==
    [kind |-> "continue", heap |-> h, stack |-> Pop(st),
     fetches |-> nf, visited |-> vis, item |-> None]

\* Lines 115-123, given the outcome r of self.next_page().
AdvancePage(h, st, nf, vis, r) ==
    IF r.raised = "IndexError" THEN Returned(h, st, nf, vis)
    ELSE IF r.raised # "none"
    THEN [kind |-> "raise", heap |-> r.heap, stack |-> <<>>,
          fetches |-> nf + r.fetches, visited |-> vis, item |-> None]
    ELSE IF r.blocked
    THEN [kind |-> "blocked", heap |-> h, stack |-> st,
          fetches |-> nf, visited |-> vis, item |-> None]
    ELSE [kind |-> "continue", heap |-> r.heap,
          stack |-> Append([st EXCEPT ![Len(st)].delegating = TRUE], Frame(r.result)),
          fetches |-> nf + r.fetches, visited |-> Append(vis, r.result),
          item |-> None]

\* The code of the innermost generator, frame f, up to its next yield,
\* return or nested iteration.
AdvanceFrame(ch, h, st, nf, vis, f) ==
    IF f.delegating THEN Returned(h, st, nf, vis)
    ELSE IF f.idx < Len(h[f.self].items)
    THEN [kind |-> "yield", heap |-> h,
          stack |-> [st EXCEPT ![Len(st)].idx = f.idx + 1],
          fetches |-> nf, visited |-> vis, item |-> h[f.self].items[f.idx + 1]]
    ELSE IF h[f.self]._no_iter_next THEN Returned(h, st, nf, vis)
    ELSE AdvancePage(h, st, nf, vis, NextPageOp(ch, h, f.self, FALSE))

Advance(ch, h, st, nf, vis) == AdvanceFrame(ch, h, st, nf, vis, Top(st))

RECURSIVE Resume(_, _, _, _, _)
ResumeFrom(ch, a) ==
    IF a.kind = "continue" THEN Resume(ch, a.heap, a.stack, a.fetches, a.visited) ELSE a

Resume(ch, h, st, nf, vis) ==
    IF st = <<>>
    THEN [kind |-> "stop", heap |-> h, stack |-> st, fetches |-> nf, visited |-> vis,
          item |-> None]
    ELSE ResumeFrom(ch, Advance(ch, h, st, nf, vis))

NothingCached(h) == \A p \in 1..Len(h) : h[p]._next = None /\ h[p]._previous = None

\* --------------------------------------------------------------- ApiAccess
SCOPE_DELIMITER == ","

PyNone == <<"None">>

Whitespace == {" "}

RECURSIVE LStrip(_)
LStrip(s) == IF s # <<>> /\ Head(s) \in Whitespace THEN LStrip(Tail(s)) ELSE s

RECURSIVE RStrip(_)
RStrip(s) ==
    IF s # <<>> /\ s[Len(s)] \in Whitespace THEN RStrip(SubSeq(s, 1, Len(s) - 1)) ELSE s

Strip(s) == RStrip(LStrip(s))

\* A match of \A(unauthenticated_)?(verb)_(.*)\Z for a verb among verbs: the
\* optional group takes the leading token when it is there (without it the
\* string would have to start with the verb, which it then does not).
ReMatch(s, verbs) ==
    LET un == IF s # <<>> /\ Head(s) = "unauthenticated_" THEN <<Head(s)>> ELSE <<>>
        rest == SubSeq(s, Len(un) + 1, Len(s))
    IN  [matched |-> rest # <<>> /\ Head(rest) \in verbs,
         unauthenticated |-> un,
         resource |-> IF rest = <<>> THEN <<>> ELSE Tail(rest)]

SCOPE_RE(s) == ReMatch(s, {"write_", "read_"})

IMPLIED_SCOPE_RE(s) == ReMatch(s, {"write_"})

GetImpliedScope_noprefix(scope) ==
    LET match == IMPLIED_SCOPE_RE(scope)
    IN  IF match.matched THEN <<"read_">> \o match.resource ELSE PyNone

GetImpliedScope_anyprefix(scope) ==
    LET match == IMPLIED_SCOPE_RE(scope)
    IN  IF match.matched
        THEN <<"unauthenticated_", "read_">> \o match.resource
        ELSE PyNone

GetImpliedScope(scope) ==
    LET match == IMPLIED_SCOPE_RE(scope)
    IN  IF match.matched
        THEN match.unauthenticated \o <<"read_">> \o match.resource
        ELSE PyNone

ValidateScopes(scopes) == \A scope \in scopes : SCOPE_RE(scope).matched

Unbuilt == [ok |-> FALSE, compressed |-> {}, expanded |-> {}]

StoreScopes_impliedonly(scopes) ==
    LET sanitized_scopes == {Strip(scopes[i]) : i \in DOMAIN scopes} \ {<<>>}
        implied_scopes == {GetImpliedScope(scope) : scope \in sanitized_scopes}
    IN  IF ~ValidateScopes(sanitized_scopes)
        THEN Unbuilt
        ELSE [ok |-> TRUE,
              compressed |-> sanitized_scopes \ implied_scopes,
              expanded |-> implied_scopes]

StoreScopes(scopes) ==
    LET sanitized_scopes == {Strip(scopes[i]) : i \in DOMAIN scopes} \ {<<>>}
        implied_scopes == {GetImpliedScope(scope) : scope \in sanitized_scopes}
    IN  IF ~ValidateScopes(sanitized_scopes)
        THEN Unbuilt
        ELSE [ok |-> TRUE,
              compressed |-> sanitized_scopes \ implied_scopes,
              expanded |-> sanitized_scopes \cup implied_scopes]

ApiAccessInit(scopes) ==
    IF scopes.kind = "str"
    THEN StoreScopes(Split(scopes.value, SCOPE_DELIMITER))
    ELSE StoreScopes(scopes.value)

CoversOp_compressed(self, api_access) == api_access.compressed \subseteq self.compressed

CoversOp(self, api_access) == api_access.compressed \subseteq self.expanded

\* The raw inputs of the constructor: lists of entries, and the same lists
\* joined with the delimiter into one string.
RawEntries ==
    { <<"write_", "orders">>,
      <<"read_", "orders">>,
      <<"unauthenticated_", "write_", "orders">>,
      <<" ", "unauthenticated_", "read_", "orders", " ">>,
      <<"write_">>,
      <<" ">>,
      <<"foo">> }

ScopeLists == UNION {[1..n -> RawEntries] : n \in 0..MaxScopes}

RECURSIVE JoinTokens(_, _)
JoinTokens(l, sep) ==
    IF l = <<>> THEN <<>>
    ELSE IF Len(l) = 1 THEN l[1]
    ELSE l[1] \o <<sep>> \o JoinTokens(Tail(l), sep)

ScopeInputs ==
    {[kind |-> "list", value |-> l] : l \in ScopeLists}
        \cup {[kind |-> "str", value |-> JoinTokens(l, SCOPE_DELIMITER)] : l \in ScopeLists}

Slots == {"A", "B"}

\* The objects the constructor returns for the inputs above.
Built == {ApiAccessInit(scopes) : scopes \in ScopeInputs} \ {Unbuilt}

\* __str__ joins the compressed scopes in the iteration order of the set,
\* which is one of its orderings.
Orderings(S) ==
    {f \in [1..Cardinality(S) -> S] : \A i, j \in DOMAIN f : i # j => f[i] # f[j]}

StrOp_spaces(order) == JoinTokens(order, " ")

StrOp(order) == JoinTokens(order, SCOPE_DELIMITER)

\* isinstance(other, ApiAccess) holds for every constructed object.
EqOp_expanded(self, other) == other.ok /\ self.expanded = other.expanded

EqOp(self, other) == other.ok /\ self.compressed = other.compressed

\* ------------------------------------------------------------ observation
Idle == [op |-> "idle"]

Objs == 1..Len(heap)

Busy == pit.op = "pages" /\ pit.state = "running"

\* ---------------------------------------------------------------- actions
\* The initial query returns the first page of the chain; every other page
\* object is the result of a fetch.
Init ==
    /\ chain \in UNION {[1..n -> ItemCounts] : n \in 1..MaxPages}
    /\ ctorOpt \in {"absent", "true", "false"}
    /\ heap = <<NewPage(chain, 1, ctorOpt)>>
    /\ ret = Idle
    /\ it = Idle
    /\ pit = Idle
    /\ sets = [s \in Slots |-> Unbuilt]
    /\ last = Idle

CallRecord(name, self, no_cache, r) ==
    [op |-> name, self |-> self, no_cache |-> no_cache,
     result |-> r.result, raised |-> r.raised, fetches |-> r.fetches]

NextPage(self, no_cache) ==
    /\ ~Busy
    /\ \E r \in {NextPageOp(Serving(chain), heap, self, no_cache)} :
           /\ ~r.blocked
           /\ heap' = r.heap
           /\ ret' = CallRecord("next", self, no_cache, r)
    /\ it' = Idle
    /\ pit' = Idle
    /\ UNCHANGED <<chain, ctorOpt, scopeVars>>

PreviousPage(self, no_cache) ==
    /\ ~Busy
    /\ \E r \in {PreviousPageOp(Serving(chain), heap, self, no_cache)} :
           /\ ~r.blocked
           /\ heap' = r.heap
           /\ ret' = CallRecord("previous", self, no_cache, r)
    /\ it' = Idle
    /\ pit' = Idle
    /\ UNCHANGED <<chain, ctorOpt, scopeVars>>

\* A complete item-level iteration over self (for item in self: ...): the
\* generator built by __iter__ is resumed until it is exhausted.
RECURSIVE Drain(_, _, _, _, _, _)
DrainFrom(ch, r, out) ==
    IF r.kind # "yield"
    THEN [heap |-> r.heap, fetches |-> r.fetches, visited |-> r.visited,
          out |-> out, blocked |-> r.kind = "blocked", failed |-> r.kind = "raise"]
    ELSE Drain(ch, r.heap, r.stack, r.fetches, r.visited, Append(out, r.item))

Drain(ch, h, st, nf, vis, out) == DrainFrom(ch, Resume(ch, h, st, nf, vis), out)

Iterate(self) ==
    /\ ~Busy
    /\ \E r \in {Drain(Serving(chain), heap, <<Frame(self)>>, 0, <<self>>, <<>>)} :
           /\ ~r.blocked
           /\ heap' = r.heap
           /\ it' = [op |-> "iter", state |-> "done", root |-> self,
                     out |-> r.out, visited |-> r.visited, fetches |-> r.fetches,
                     clean |-> NothingCached(heap),
                     auto |-> ~heap[self]._no_iter_next]
    /\ ret' = Idle
    /\ pit' = Idle
    /\ UNCHANGED <<chain, ctorOpt, scopeVars>>

\* for item in self: ... break -- the caller leaves the loop after the last
\* item the generator yields before it would need a page object beyond
\* MaxObjs; the generator is dropped where it stands.
IterateCut(self) ==
    /\ ~Busy
    /\ \E r \in {Drain(Serving(chain), heap, <<Frame(self)>>, 0, <<self>>, <<>>)} :
           /\ r.blocked
           /\ heap' = r.heap
           /\ it' = [op |-> "cut", root |-> self,
                     out |-> r.out, visited |-> r.visited, fetches |-> r.fetches,
                     auto |-> ~heap[self]._no_iter_next]
    /\ ret' = Idle
    /\ pit' = Idle
    /\ UNCHANGED <<chain, ctorOpt, scopeVars>>

\* PaginatedIterator(collection) followed by iter() on it.
PitConstruct(collection) ==
    /\ ~Busy
    /\ heap' = [heap EXCEPT ![collection]._no_iter_next = TRUE]
    /\ pit' = [op |-> "pages", state |-> "running", collection |-> collection,
               current_page |-> None, yielded |-> <<>>, fetches |-> 0]
    /\ ret' = Idle
    /\ it' = Idle
    /\ UNCHANGED <<chain, ctorOpt, scopeVars>>

PitNext ==
    /\ pit.op = "pages" /\ pit.state = "running"
    /\ IF pit.yielded = <<>>
       THEN /\ pit' = [pit EXCEPT !.current_page = pit.collection,
                                  !.yielded = <<pit.collection>>]
            /\ heap' = heap
       ELSE \E r \in {NextPageOp(Serving(chain), heap, pit.current_page, TRUE)} :
                /\ ~r.blocked
                /\ heap' = r.heap
                /\ pit' = IF r.raised = "IndexError"
                          THEN [pit EXCEPT !.state = "done"]
                          ELSE [pit EXCEPT !.current_page = r.result,
                                           !.yielded = Append(@, r.result),
                                           !.fetches = @ + r.fetches]
    /\ UNCHANGED <<chain, ctorOpt, ret, it, scopeVars>>

Next ==
    \/ \E self \in Objs, no_cache \in BOOLEAN : NextPage(self, no_cache)
    \/ \E self \in Objs, no_cache \in BOOLEAN : PreviousPage(self, no_cache)
    \/ \E self \in Objs : Iterate(self)
    \/ \E collection \in Objs : PitConstruct(collection)
    \/ PitNext

Spec == Init /\ [][Next]_vars

\* ------------------------------------- the collaborator may fail a find call
\* The calls above with a collaborator that answers the find call of this
\* operation (for a loop: one of its find calls) with a transport error.
NextPageFails(self, no_cache) ==
    /\ ~Busy
    /\ \E r \in {NextPageOp(Failing(chain, Len(heap) + 1), heap, self, no_cache)} :
           /\ r.raised = "TransportError"
           /\ heap' = r.heap
           /\ ret' = CallRecord("next", self, no_cache, r)
    /\ it' = Idle
    /\ pit' = Idle
    /\ UNCHANGED <<chain, ctorOpt, scopeVars>>

PreviousPageFails(self, no_cache) ==
    /\ ~Busy
    /\ \E r \in {PreviousPageOp(Failing(chain, Len(heap) + 1), heap, self, no_cache)} :
           /\ r.raised = "TransportError"
           /\ heap' = r.heap
           /\ ret' = CallRecord("previous", self, no_cache, r)
    /\ it' = Idle
    /\ pit' = Idle
    /\ UNCHANGED <<chain, ctorOpt, scopeVars>>

IterateFails(self, n) ==
    /\ ~Busy
    /\ \E r \in {Drain(Failing(chain, n), heap, <<Frame(self)>>, 0, <<self>>, <<>>)} :
           /\ r.failed
           /\ heap' = r.heap
           /\ it' = [op |-> "raised", root |-> self,
                     out |-> r.out, visited |-> r.visited, fetches |-> r.fetches,
                     auto |-> ~heap[self]._no_iter_next]
    /\ ret' = Idle
    /\ pit' = Idle
    /\ UNCHANGED <<chain, ctorOpt, scopeVars>>

PitNextFails ==
    /\ pit.op = "pages" /\ pit.state = "running"
    /\ pit.yielded # <<>>
    /\ \E r \in {NextPageOp(Failing(chain, Len(heap) + 1), heap, pit.current_page, TRUE)} :
           /\ r.raised = "TransportError"
           /\ heap' = r.heap
           /\ pit' = [pit EXCEPT !.state = "raised", !.fetches = @ + r.fetches]
    /\ UNCHANGED <<chain, ctorOpt, ret, it, scopeVars>>

FullNext ==
    \/ Next
    \/ \E self \in Objs : IterateCut(self)
    \/ \E self \in Objs, no_cache \in BOOLEAN : NextPageFails(self, no_cache)
    \/ \E self \in Objs, no_cache \in BOOLEAN : PreviousPageFails(self, no_cache)
    \/ \E self \in Objs, n \in (Len(heap) + 1)..(MaxObjs + 1) : IterateFails(self, n)
    \/ PitNextFails

\* The first page is built with no_iter_next=False (item loops auto-advance)
\* and every page of the chain holds items.
FullInit ==
    /\ Init
    /\ ctorOpt = "false"
    /\ \A k \in DOMAIN chain : chain[k] > 0

FullSpec == FullInit /\ [][FullNext]_vars

\* ------------------------------------------------ the ApiAccess operations
ScopeInit ==
    /\ chain = <<0>>
    /\ ctorOpt = "absent"
    /\ heap = <<NewPage(chain, 1, ctorOpt)>>
    /\ ret = Idle
    /\ it = Idle
    /\ pit = Idle
    /\ sets = [s \in Slots |-> Unbuilt]
    /\ last = Idle

\* ApiAccessError is not caught by the caller: it ends the run.
Raised == last.op = "init" /\ last.raised = "ApiAccessError"

\* slot = ApiAccess(scopes), for a variable of the caller that holds no
\* object yet; when the constructor raises, the variable stays unassigned.
Construct(slot, scopes) ==
    /\ ~Raised
    /\ ~sets[slot].ok
    /\ \E r \in {ApiAccessInit(scopes)} :
           /\ sets' = IF r.ok THEN [sets EXCEPT ![slot] = r] ELSE sets
           /\ last' = [op |-> "init", slot |-> slot, scopes |-> scopes,
                       raised |-> IF r.ok THEN "none" ELSE "ApiAccessError"]
    /\ UNCHANGED pageVars

Covers(a, b) ==
    /\ ~Raised
    /\ sets[a].ok /\ sets[b].ok
    /\ last' = [op |-> "covers", self |-> a, api_access |-> b,
                result |-> CoversOp(sets[a], sets[b])]
    /\ UNCHANGED <<pageVars, sets>>

\* a = ApiAccess(scopes); b = ApiAccess(scopes), for a list the constructor
\* accepts (a list it rejects raises at the first call, as in Construct).
ConstructTwice(scopes) ==
    /\ ~Raised
    /\ \A slot \in Slots : ~sets[slot].ok
    /\ \E r \in {ApiAccessInit(scopes)} :
           /\ r.ok
           /\ sets' = [slot \in Slots |-> r]
           /\ last' = [op |-> "init2", scopes |-> scopes]
    /\ UNCHANGED pageVars

\* b = ApiAccess(str(a)).
RoundTrip(a, b) ==
    /\ ~Raised
    /\ sets[a].ok /\ ~sets[b].ok
    /\ \E order \in Orderings(sets[a].compressed) :
           \E r \in {ApiAccessInit([kind |-> "str", value |-> StrOp(order)])} :
               /\ sets' = IF r.ok THEN [sets EXCEPT ![b] = r] ELSE sets
               /\ last' = [op |-> "reparse", self |-> a, slot |-> b,
                           value |-> StrOp(order),
                           raised |-> IF r.ok THEN "none" ELSE "ApiAccessError"]
    /\ UNCHANGED pageVars

\* a == b, a.covers(b), b.covers(a).
Equals(a, b) ==
    /\ ~Raised
    /\ sets[a].ok /\ sets[b].ok
    /\ last' = [op |-> "eq", self |-> a, other |-> b,
                result |-> EqOp(sets[a], sets[b]),
                covers |-> CoversOp(sets[a], sets[b]),
                covered |-> CoversOp(sets[b], sets[a])]
    /\ UNCHANGED <<pageVars, sets>>

\* a.covers(b), b.covers(c), a.covers(c) for two objects a and b and a
\* third object c the caller holds in a local variable.
CoversChain(a, b, c) ==
    /\ ~Raised
    /\ a # b
    /\ sets[a].ok /\ sets[b].ok
    /\ last' = [op |-> "covers3", self |-> a, mid |-> b,
                ab |-> CoversOp(sets[a], sets[b]),
                bc |-> CoversOp(sets[b], c),
                ac |-> CoversOp(sets[a], c),
                distinct |-> /\ sets[a].compressed # sets[b].compressed
                             /\ sets[b].compressed # c.compressed
                             /\ sets[a].compressed # c.compressed]
    /\ UNCHANGED <<pageVars, sets>>

ScopeNext ==
    \/ \E slot \in Slots, scopes \in ScopeInputs : Construct(slot, scopes)
    \/ \E scopes \in ScopeInputs : ConstructTwice(scopes)
    \/ \E a \in Slots, b \in Slots : RoundTrip(a, b)
    \/ \E a \in Slots, b \in Slots : Covers(a, b)
    \/ \E a \in Slots, b \in Slots : Equals(a, b)
    \/ \E a \in Slots, b \in Slots, c \in Built : CoversChain(a, b, c)

ScopeSpec == ScopeInit /\ [][ScopeNext]_vars

\* ================================================================== claims
\* The items of pages k, k+1, ..., of the chain, in link order.
RECURSIVE ItemsFrom(_, _)
ItemsFrom(ch, k) ==
    IF k > Len(ch) THEN <<>>
    ELSE [j \in 1..ch[k] |-> 10 * k + j] \o ItemsFrom(ch, k + 1)

\* The Link header of the metadata names a link with this rel.
LinkPresent(headers, rel) ==
    \E key \in DOMAIN headers :
        \E i \in 1..(Len(headers[key]) - 2) :
            headers[key][i] = "rel=" /\ headers[key][i + 2] = rel

\* The pages of a sequence of page objects are consecutive pages of the chain.
InLinkOrder(h, ps) == \A i \in 1..Len(ps) : h[ps[i]].page = h[ps[1]].page + i - 1

WriteScope(pre, res) == pre \o <<"write_">> \o res

ReadScope(pre, res) == pre \o <<"read_">> \o res

Prefixes == {<<>>, <<"unauthenticated_">>}

Resources == {<<>>, <<"orders">>}

\* The entries of a raw input, trimmed, without the empty ones.
EntriesOf(scopes) ==
    LET l == IF scopes.kind = "str" THEN Split(scopes.value, ",") ELSE scopes.value
    IN  {Strip(l[i]) : i \in DOMAIN l} \ {<<>>}

\* C1: covers(A, B) is true exactly when every scope of B.compressed is in
\* A.expanded; a set holding write_X covers a set requiring read_X, and a set
\* holding only read_X does not cover a set requiring write_X.
C1_Covers ==
    last.op = "covers" =>
        LET A == sets[last.self]
            B == sets[last.api_access]
        IN  /\ last.result = (\A s \in B.compressed : s \in A.expanded)
            /\ \A pre \in Prefixes, res \in Resources :
                /\ (WriteScope(pre, res) \in A.compressed
                        /\ B.compressed = {ReadScope(pre, res)}) => last.result
                /\ (A.compressed = {ReadScope(pre, res)}
                        /\ WriteScope(pre, res) \in B.compressed) => ~last.result

C1_Witness ==
    /\ last.op = "covers"
    /\ last.result
    /\ last.self # last.api_access
    /\ sets[last.self].compressed = {WriteScope(<<>>, <<"orders">>)}
    /\ sets[last.api_access].compressed = {ReadScope(<<>>, <<"orders">>)}

\* C2: when the input holds write_X (with or without the unauthenticated_
\* prefix), read_X with the same prefix is not in compressed and is in
\* expanded; every other sanitized input scope stays in compressed.
C2_Compression ==
    (last.op = "init" /\ last.raised = "none") =>
        LET S == sets[last.slot]
            input == EntriesOf(last.scopes)
        IN  /\ \A pre \in Prefixes, res \in Resources :
                WriteScope(pre, res) \in input =>
                    /\ ReadScope(pre, res) \notin S.compressed
                    /\ ReadScope(pre, res) \in S.expanded
            /\ \A s \in input :
                (~\E pre \in Prefixes, res \in Resources :
                      s = ReadScope(pre, res) /\ WriteScope(pre, res) \in input)
                    => s \in S.compressed

C2_Witness ==
    /\ last.op = "init" /\ last.raised = "none"
    /\ last.scopes.kind = "str"
    /\ EntriesOf(last.scopes) = {WriteScope(<<>>, <<"orders">>), ReadScope(<<>>, <<"orders">>)}
    /\ sets[last.slot].compressed = {WriteScope(<<>>, <<"orders">>)}
    /\ ReadScope(<<>>, <<"orders">>) \in sets[last.slot].expanded

\* C3: with nothing cached, a complete item-level iteration over a page in
\* auto-advance mode yields the items of that page and of every following
\* page of the chain, in link order, each once, and makes one fetch call per
\* following page (two for three pages).
C3_Flatten ==
    (it.op = "iter" /\ it.clean /\ it.auto) =>
        /\ it.state = "done"
        /\ it.out = ItemsFrom(chain, heap[it.root].page)
        /\ it.fetches = Len(chain) - heap[it.root].page
        /\ Len(it.visited) = it.fetches + 1
        /\ InLinkOrder(heap, it.visited)

C3_Witness ==
    /\ it.op = "iter" /\ it.clean /\ it.auto
    /\ Len(chain) = 3
    /\ heap[it.root].page = 1
    /\ it.fetches = 2
    /\ Len(it.out) = 3 * MaxItems

\* C4: with nothing cached, PaginatedIterator yields the pages of the chain
\* from the starting page to the last one, in link order, with one fetch call
\* per page after the first, ends when the last page has no next link, and at
\* no point leaves a cached next or previous neighbour on any page.
C4_PagesInv ==
    (pit.op = "pages" /\ NothingCached(heap)) =>
        /\ InLinkOrder(heap, pit.yielded)
        /\ \A i \in 1..Len(pit.yielded) : \A j \in 1..Len(pit.yielded) :
               i # j => pit.yielded[i] # pit.yielded[j]
        /\ pit.yielded # <<>> =>
               /\ pit.yielded[1] = pit.collection
               /\ pit.fetches = Len(pit.yielded) - 1
        /\ pit.state = "done" =>
               /\ pit.yielded # <<>>
               /\ pit.fetches = Len(chain) - heap[pit.collection].page
               /\ ~HasNextPage(heap[pit.yielded[Len(pit.yielded)]])

\* C4: the pages come in link order with one fetch each, and no step of the
\* page iteration caches a neighbour on any page.
C4_PageIterator ==
    /\ []C4_PagesInv
    /\ [][(PitNext /\ NothingCached(heap)) => NothingCached(heap')]_vars

C4_Witness ==
    /\ pit.op = "pages" /\ pit.state = "done"
    /\ NothingCached(heap)
    /\ Len(pit.yielded) = 3
    /\ pit.fetches = 2

\* C5: once a next page is cached on p, every later p.next(), with either
\* no_cache value, returns that cached page and makes no fetch call.
C5_CachedNextReused ==
    [][\A self \in Objs, no_cache \in BOOLEAN :
          (NextPage(self, no_cache) /\ heap[self]._next # None) =>
              (ret'.result = heap[self]._next /\ ret'.fetches = 0)]_vars

\* C6: when p.previous(no_cache=false), with no previous neighbour cached on
\* p, fetches a page q, q becomes p's cached
\* previous neighbour and p becomes q's cached next neighbour.
C6_PreviousMirrorsNext ==
    [][\A self \in Objs :
          (PreviousPage(self, FALSE) /\ heap[self]._previous = None /\ ret'.fetches = 1) =>
              /\ heap'[self]._previous = ret'.result
              /\ heap'[ret'.result]._next = self]_vars

\* C7: p.previous() leaves p's cached next neighbour unchanged and p.next()
\* leaves p's cached previous neighbour unchanged.
C7_DirectionsIndependent ==
    [][\A self \in Objs, no_cache \in BOOLEAN :
          /\ PreviousPage(self, no_cache) => heap'[self]._next = heap[self]._next
          /\ NextPage(self, no_cache) => heap'[self]._previous = heap[self]._previous]_vars

\* C8: for a page with a next link and no cached next neighbour,
\* next(no_cache=true) makes a fetch call, leaves the page as it was (so the
\* call that follows fetches again), and the fetched page holds no cached link.
C8_AfterNoCache ==
    (ret.op = "next" /\ ret.no_cache /\ ret.fetches = 1 /\ heap[ret.self]._next = None) =>
        /\ HasNextPage(heap[ret.self])
        /\ ret.result = Len(heap)
        /\ heap[ret.result]._next = None
        /\ heap[ret.result]._previous = None

\* C8: next(no_cache=true) on a page with a next link and no cached next
\* neighbour fetches and changes no existing page, before and after any such
\* call.  (A step that leaves a record of next_page in ret is a call of it on
\* ret'.self: no other action writes such a record.)
C8_NoCacheNext ==
    /\ []C8_AfterNoCache
    /\ [][(ret'.op = "next" /\ ret'.no_cache
              /\ HasNextPage(heap[ret'.self]) /\ heap[ret'.self]._next = None) =>
                 /\ ret'.fetches = 1
                 /\ ret'.raised = "none"
                 /\ Len(heap') = Len(heap) + 1
                 /\ \A p \in Objs : heap'[p] = heap[p]]_vars

C8_Witness ==
    /\ ret.op = "next" /\ ret.no_cache /\ ret.fetches = 1
    /\ ret.self = 1 /\ ret.result = 3
    /\ heap[2].page = heap[3].page
    /\ heap[1]._next = None /\ heap[1]._previous = None
    /\ heap[2]._previous = None /\ heap[3]._previous = None

\* C9: has_next()/has_previous() is true exactly when the construction
\* metadata held the link; without the link and with nothing cached in that
\* direction, next()/previous() raises IndexError under either no_cache
\* value, makes no fetch call and changes no page.
C9_LinkInv ==
    \A p \in Objs :
        /\ HasNextPage(heap[p]) = LinkPresent(heap[p].headers, "next")
        /\ HasPreviousPage(heap[p]) = LinkPresent(heap[p].headers, "previous")

\* C9: has_next()/has_previous() mirror the links of the metadata, and a
\* call without the link and without a cached neighbour raises IndexError,
\* fetches nothing and changes no page.
C9_NoSuchPage ==
    /\ []C9_LinkInv
    /\ [][/\ (ret'.op = "next"
                 /\ ~LinkPresent(heap[ret'.self].headers, "next")
                 /\ heap[ret'.self]._next = None) =>
                (ret'.raised = "IndexError" /\ ret'.fetches = 0 /\ heap' = heap)
          /\ (ret'.op = "previous"
                 /\ ~LinkPresent(heap[ret'.self].headers, "previous")
                 /\ heap[ret'.self]._previous = None) =>
                (ret'.raised = "IndexError" /\ ret'.fetches = 0 /\ heap' = heap)]_vars

C9_Witness ==
    /\ ret.op = "next" /\ ret.raised = "IndexError" /\ ret.fetches = 0
    /\ Len(chain) = 3
    /\ heap[ret.self].page = 3
    /\ heap[ret.self]._next = None
    /\ ~HasNextPage(heap[ret.self])
    /\ HasPreviousPage(heap[ret.self])

IsPrefix(s, t) == Len(s) <= Len(t) /\ s = SubSeq(t, 1, Len(s))

\* Every page object is in auto-advance mode: the first page was constructed
\* with no_iter_next false and no page was handed to PaginatedIterator.
AllAuto == \A p \in Objs : ~heap[p]._no_iter_next

\* C11: whatever next() and previous() calls came before, an auto-advance
\* loop over a page yields items of that page and of the pages after it only,
\* in link order and each once (all of them when the loop runs to its end),
\* and the pages it walks are consecutive pages of the chain.
C11_ForwardInLinkOrder ==
    (it.op \in {"iter", "cut"} /\ it.auto /\ AllAuto) =>
        /\ IsPrefix(it.out, ItemsFrom(chain, heap[it.root].page))
        /\ it.op = "iter" => it.out = ItemsFrom(chain, heap[it.root].page)
        /\ InLinkOrder(heap, it.visited)

\* C12: a complete auto-advance loop over a page that follows a complete
\* loop over the same page (it is reset by every other call, so a step from
\* one loop record to the next is such a repetition) yields the same items again, from the first item
\* of the page, and makes no fetch call.
C12_RestartReusesCache ==
    [][(it.op = "iter" /\ it.auto /\ it'.op = "iter" /\ it'.root = it.root) =>
          /\ it'.out = it.out
          /\ it'.fetches = 0]_vars

\* The items held by p and by the pages cached behind it in the next
\* direction.
RECURSIVE CachedTotal(_, _)
CachedTotal(h, p) ==
    Len(h[p].items) + (IF h[p]._next = None THEN 0 ELSE CachedTotal(h, h[p]._next))

Last(s) == s[Len(s)]

\* A page from which neither a cached next page nor a next link leads on.
EndOfData(h, p) == ~Truthy(h, h[p]._next) /\ ~HasNextPage(h[p])

\* C18: a loop that ended without an error ended at a page in
\* no-auto-advance mode or at the end of the data, and a page iteration that
\* ended without an error ended at the end of the data.
C18_SilentEndInv ==
    /\ it.op = "iter" =>
           (heap[Last(it.visited)]._no_iter_next \/ EndOfData(heap, Last(it.visited)))
    /\ (pit.op = "pages" /\ pit.state = "done") => EndOfData(heap, Last(pit.yielded))

\* C18: when the find call of next(), previous(), an auto-advance loop or a
\* page iteration raises a transport error, the error reaches the caller
\* after one fetch call for that page (for a loop: one per page fetched
\* before, plus one), and the cached links are those from before that call.
C18_TransportErrorPropagates ==
    /\ []C18_SilentEndInv
    /\ [][/\ (ret'.op \in {"next", "previous"} /\ ret'.raised = "TransportError") =>
                (ret'.fetches = 1 /\ ret'.result = None /\ heap' = heap)
          /\ it'.op = "raised" =>
                /\ it'.fetches = Len(heap') - Len(heap) + 1
                /\ \A p \in Objs :
                       (\A i \in 1..(Len(it'.visited) - 1) : it'.visited[i] # p) =>
                           heap'[p] = heap[p]
                /\ Last(it'.visited) > Len(heap) => heap'[Last(it'.visited)]._next = None
          /\ (pit'.op = "pages" /\ pit'.state = "raised" /\ pit.state = "running") =>
                /\ pit'.fetches = pit.fetches + 1
                /\ pit'.yielded = pit.yielded
                /\ heap' = heap]_vars

C18_Witness ==
    /\ it.op = "raised"
    /\ it.root = 1
    /\ it.fetches = 2
    /\ Len(it.visited) = 2
    /\ Len(it.out) = 2 * MaxItems
    /\ Len(heap) = 2
    /\ heap[1]._next = 2
    /\ heap[2]._next = None

\* C19: every page PaginatedIterator has produced is in no-auto-advance
\* mode, whatever calls were made on the pages before it was constructed.
C19_ProducedNoAutoAdvance ==
    pit.op = "pages" =>
        \A i \in 1..Len(pit.yielded) : heap[pit.yielded[i]]._no_iter_next

\* An entry of the form [unauthenticated_](write|read)_<resource> with a
\* resource of at least one character.
HasScopeForm(s) ==
    LET body == IF s # <<>> /\ Head(s) = "unauthenticated_" THEN Tail(s) ELSE s
    IN  Len(body) >= 2 /\ body[1] \in {"write_", "read_"}

\* C14: construction trims the entries and drops the empty ones; it succeeds
\* exactly when every entry left has the scope form with a resource of at
\* least one character, and a failed construction produces no sets.
C14_ConstructionValidates ==
    last.op = "init" =>
        /\ (last.raised = "none") = (\A s \in EntriesOf(last.scopes) : HasScopeForm(s))
        /\ last.raised = "none" =>
               /\ sets[last.slot].ok
               /\ sets[last.slot].compressed \subseteq EntriesOf(last.scopes)
        /\ last.raised # "none" => sets[last.slot] = Unbuilt

\* C15: a set holding only unauthenticated_write_X covers a set requiring
\* unauthenticated_read_X and covers neither read_X nor write_X; a set
\* holding only write_X covers neither unauthenticated_read_X nor
\* unauthenticated_write_X.
C15_PrefixNotCrossed ==
    last.op = "covers" =>
        LET A == sets[last.self].compressed
            B == sets[last.api_access].compressed
            un == <<"unauthenticated_">>
        IN  \A res \in Resources :
                /\ (A = {WriteScope(un, res)} /\ B = {ReadScope(un, res)}) => last.result
                /\ (A = {WriteScope(un, res)} /\ B = {ReadScope(<<>>, res)}) => ~last.result
                /\ (A = {WriteScope(un, res)} /\ B = {WriteScope(<<>>, res)}) => ~last.result
                /\ (A = {WriteScope(<<>>, res)} /\ B = {ReadScope(un, res)}) => ~last.result
                /\ (A = {WriteScope(<<>>, res)} /\ B = {WriteScope(un, res)}) => ~last.result

C15_Witness ==
    /\ last.op = "covers"
    /\ ~last.result
    /\ sets[last.self].compressed = {WriteScope(<<"unauthenticated_">>, <<"orders">>)}
    /\ sets[last.api_access].compressed = {ReadScope(<<>>, <<"orders">>)}

\* C16: the object constructed from str(S) equals S, for every constructed S
\* (no scope of the model holds the delimiter), whatever order __str__ joins
\* the compressed scopes in.
C16_StrRoundTrip ==
    last.op = "reparse" =>
        /\ last.raised = "none"
        /\ EqOp(sets[last.slot], sets[last.self])
        /\ EqOp(sets[last.self], sets[last.slot])

C16_Witness ==
    /\ last.op = "reparse"
    /\ sets[last.self].compressed
           = {WriteScope(<<>>, <<"orders">>), WriteScope(<<"unauthenticated_">>, <<"orders">>)}
    /\ ReadScope(<<>>, <<"orders">>) \in sets[last.self].expanded
    /\ last.value = <<"unauthenticated_", "write_", "orders", ",", "write_", "orders">>
    /\ sets[last.slot].compressed = sets[last.self].compressed

\* C17: an object covers itself.
C17_SelfInv == (last.op = "covers" /\ last.self = last.api_access) => last.result

\* C17: covers is reflexive: an object covers itself, and of two objects built
\* from the same list each covers the other and itself.
C17_Reflexive ==
    /\ []C17_SelfInv
    /\ [][(last.op = "init2" /\ last'.op = "covers") => last'.result]_vars

C17_Witness ==
    /\ last.op = "covers"
    /\ last.self # last.api_access
    /\ last.result
    /\ sets[last.self] = sets[last.api_access]
    /\ sets[last.self].compressed = {ReadScope(<<>>, <<"orders">>)}

\* C20: covers is transitive, and two objects are equal exactly when each
\* covers the other.
C20_TransitiveAndEq ==
    /\ last.op = "covers3" => ((last.ab /\ last.bc) => last.ac)
    /\ last.op = "eq" => (last.result = (last.covers /\ last.covered))

C20_Witness ==
    /\ last.op = "covers3"
    /\ last.ab /\ last.bc /\ last.ac
    /\ last.distinct
    /\ sets[last.mid].compressed = {WriteScope(<<>>, <<"orders">>)}

====
